---------------------------- MODULE Spec2Model ----------------------------
(***************************************************************************)
(* Model of scripts/generate_icon.py: the generator of the 1024x1024 Din   *)
(* app icon.  The program is a single forward pass: build a rounded-rect   *)
(* mask, paint a gradient background, composite five "glass waves" (body   *)
(* fill, blurred bloom, sharp edge), clip with the mask, save, print.      *)
(*                                                                         *)
(* Floating point is modelled in fixed point with eight decimal places     *)
(* (Scale); math.sin and math.exp are computed by their Taylor series.     *)
(* TLC's integers are 32 bits wide, so products are taken limb by limb.    *)
(* An image is modelled by one of its columns (px, picked in Init): a      *)
(* function from the row y in 0..SIZE-1 to the pixel <<r, g, b, a>>.       *)
(***************************************************************************)
EXTENDS Integers, Sequences, FiniteSets, TLC

SIZE == 1024
MARGIN == 100
CORNER == 185

Rows == 0 .. (SIZE - 1)

-----------------------------------------------------------------------------
(* Fixed-point arithmetic standing for Python's floats.                    *)

Limb == 10 ^ 4
Scale == Limb * Limb

\* floor(a * b / Scale) for a, b >= 0, without leaving 32 bits.
FixMul(a, b) ==
    LET ah == a \div Limb
        al == a % Limb
        bh == b \div Limb
        bl == b % Limb
    IN  ah * bh + ((ah * bl + al * bh + ((al * bl) \div Limb)) \div Limb)

\* floor(a * b / c) for a, b >= 0 and c > 0 with (c - 1) * b inside 32 bits.
MulDiv(a, b, c) == (a \div c) * b + (((a % c) * b) \div c)

\* <<floor(k * m / Scale), (k * m) % Scale>> for a small integer k >= 0 and a
\* fixed-point m >= 0.
ScaleBy(k, m) ==
    LET hi == k * (m \div Limb) + ((k * (m % Limb)) \div Limb)
        lo == (k * (m % Limb)) % Limb
    IN  <<hi \div Limb, (hi % Limb) * Limb + lo>>

Pi == 314159265
HalfPi == 157079633
TwoPi == 628318531

\* t[1] - t[2]
Diff(t) == t[1] - t[2]

\* <<added, subtracted>> with the term next of index k put on its side.
Put(sums, next, k) ==
    IF k % 2 = 1 THEN <<sums[1], sums[2] + next>> ELSE <<sums[1] + next, sums[2]>>

\* The sine series r - r^3/3! + r^5/5! - ... from the term of index k on, for
\* r in [0, pi/2]: <<sum of the terms added, sum of the terms subtracted>>.
RECURSIVE SinTerms(_, _, _)
SinFrom(next, r2, k) ==
    IF next = 0 THEN <<0, 0>> ELSE Put(SinTerms(next, r2, k + 1), next, k)
SinTerms(term, r2, k) ==
    SinFrom(FixMul(term, r2) \div ((2 * k) * (2 * k + 1)), r2, k)

SinQuarter(r) == r + Diff(SinTerms(r, FixMul(r, r), 1))

\* The angle r in [0, 2 pi) folded into [0, pi/2]: <<sign, angle>>.
Fold(r) ==
    IF r <= HalfPi THEN <<1, r>>
    ELSE IF r <= Pi THEN <<1, Pi - r>>
    ELSE IF r <= Pi + HalfPi THEN <<0 - 1, r - Pi>>
    ELSE <<0 - 1, TwoPi - r>>

Signed(f) == f[1] * SinQuarter(f[2])

\* math.sin of argE4 / 10^4 radians (argE4 >= 0), as a signed fixed-point value.
Sin(argE4) == Signed(Fold((argE4 * Limb) % TwoPi))

\* The series 1 - z + z^2/2! - ... of exp(-z), z = num/den in [0, 3.5], from the
\* term of index n on: <<sum of the terms added, sum of the terms subtracted>>.
RECURSIVE ExpTerms(_, _, _, _)
ExpFrom(next, num, den, n) ==
    IF next = 0 THEN <<0, 0>> ELSE Put(ExpTerms(next, num, den, n + 1), next, n)
ExpTerms(term, num, den, n) == ExpFrom(MulDiv(term, num, den * n), num, den, n)

\* math.exp(-num/den) as a fixed-point value.
ExpNeg(num, den) == Scale + Diff(ExpTerms(Scale, num, den, 1))

\* floor(num * e / den) for a fixed-point e in [0, 1] and small integers.
TimesFloor(num, den, e) ==
    (num * (e \div Limb) + ((num * (e % Limb)) \div Limb)) \div (den * Limb)

\* int(): truncation toward zero of the value v[1] + v[2]/Scale, 0 <= v[2] < Scale.
IntOf(v) == IF v[1] < 0 /\ v[2] > 0 THEN v[1] + 1 ELSE v[1]

-----------------------------------------------------------------------------
(* The five wave descriptors of main, back to front.  freq and phase are   *)
(* in ten-thousandths (0.006 is 60, 0.8 is 8000).                          *)

waves ==
    << [base_y |-> 300, amplitude |-> 25, freq |-> 60, phase |-> 8000,
        edge |-> <<100, 190, 235, 140>>, body |-> <<25, 60, 100>>,
        depth |-> 200, blur |-> 10],
       [base_y |-> 400, amplitude |-> 45, freq |-> 85, phase |-> 36000,
        edge |-> <<110, 200, 240, 170>>, body |-> <<28, 70, 115>>,
        depth |-> 190, blur |-> 9],
       [base_y |-> 510, amplitude |-> 50, freq |-> 70, phase |-> 12000,
        edge |-> <<130, 215, 250, 200>>, body |-> <<30, 80, 130>>,
        depth |-> 180, blur |-> 8],
       [base_y |-> 620, amplitude |-> 42, freq |-> 95, phase |-> 50000,
        edge |-> <<150, 225, 255, 225>>, body |-> <<35, 90, 140>>,
        depth |-> 165, blur |-> 7],
       [base_y |-> 740, amplitude |-> 35, freq |-> 80, phase |-> 25000,
        edge |-> <<175, 240, 255, 250>>, body |-> <<40, 100, 150>>,
        depth |-> 150, blur |-> 6] >>

NumWaves == Len(waves)

\* base + p and base - p for p = <<integer part, fraction>>, p >= 0.
Plus(base, p) == <<base + p[1], p[2]>>
Minus(base, p) == IF p[2] = 0 THEN <<base - p[1], 0>> ELSE <<base - p[1] - 1, Scale - p[2]>>

\* base_y + amplitude * s for the signed fixed-point s.
Swing(base_y, amplitude, s) ==
    IF s >= 0 THEN Plus(base_y, ScaleBy(amplitude, s))
    ELSE Minus(base_y, ScaleBy(amplitude, 0 - s))

\* v + phase, the phase in ten-thousandths.
Shifted(v, phase) ==
    <<v[1] + (phase \div Limb) + ((v[2] + (phase % Limb) * Limb) \div Scale),
      (v[2] + (phase % Limb) * Limb) % Scale>>

\* base_y + amplitude * sin(freq * x) + phase: the phase added outside the sine.
wave_y_PhaseOutside(x, base_y, amplitude, freq, phase) ==
    Shifted(Swing(base_y, amplitude, Sin(freq * x)), phase)

\* wave_y: base_y + amplitude * math.sin(freq * x + phase), as
\* <<integer part (floor), fractional part in 1/Scale>>.
wave_y(x, base_y, amplitude, freq, phase) ==
    Swing(base_y, amplitude, Sin(freq * x + phase))

\* main's y_func = lambda x, w=w: wave_y(x, w["base_y"], ...).
y_func(w, x) == wave_y(x, w.base_y, w.amplitude, w.freq, w.phase)

\* 0.06 in place of 0.6.
BodyAlpha_Tenth(edge_alpha, dy, bloom_depth) ==
    TimesFloor(6 * edge_alpha, 100, ExpNeg(7 * dy, 2 * bloom_depth))

\* The gradient upside down: t = (bloom_depth - dy) / bloom_depth.
BodyAlpha_Reversed(edge_alpha, dy, bloom_depth) ==
    TimesFloor(6 * edge_alpha, 10, ExpNeg(7 * (bloom_depth - dy), 2 * bloom_depth))

\* draw_glass_wave: t = dy / bloom_depth;
\* alpha = int(edge_color[3] * 0.6 * math.exp(-3.5 * t)).
BodyAlpha(edge_alpha, dy, bloom_depth) ==
    TimesFloor(6 * edge_alpha, 10, ExpNeg(7 * dy, 2 * bloom_depth))

-----------------------------------------------------------------------------
(* Images, seen in one column: a function from the row to the pixel.       *)

Transparent == <<0, 0, 0, 0>>

\* Image.new("RGBA", (SIZE, SIZE), (0, 0, 0, 0))
NewImage == [y \in Rows |-> Transparent]

\* Pillow's rounded division by 255: ((a >> 8) + a) >> 8.
ShiftForDiv255(a) == ((a \div 256) + a) \div 256

\* One pixel of Image.alpha_composite(dst, src): src over dst, in Pillow's
\* integer arithmetic (7 extra bits of precision for the colour channels).
Over(dst, src) ==
    IF src[4] = 0 THEN dst
    ELSE LET blend == dst[4] * (255 - src[4])
             outa255 == src[4] * 255 + blend
             coef1 == (src[4] * 255 * 255 * 128) \div outa255
             coef2 == 255 * 128 - coef1
             ch(i) == ShiftForDiv255(src[i] * coef1 + dst[i] * coef2 + 128 * 128)
                          \div 128
         IN  <<ch(1), ch(2), ch(3), ShiftForDiv255(outa255 + 128)>>

\* The result of the composite not kept: the image stays as it was.
alpha_composite_Dropped(dst, src) == dst

\* Image.alpha_composite(dst, src)
alpha_composite(dst, src) == [y \in Rows |-> Over(dst[y], src[y])]

\* main, lines 98-104: the row y of the dark background, t = y / SIZE.
Background ==
    [y \in Rows |-> <<5 + ((y * 8) \div SIZE), 5 + ((y * 8) \div SIZE),
                      12 + ((y * 18) \div SIZE), 255>>]

\* The dy at which the body loop of a column ends: the first dy whose row is
\* inside the canvas and whose alpha is below 1 (break), or bloom_depth.
BodyStop(e_alpha, depth, crest) ==
    LET breaks == {d \in 0 .. (depth - 1) :
                      /\ crest + d >= 0 /\ crest + d < SIZE
                      /\ BodyAlpha(e_alpha, d, depth) < 1}
    IN  IF breaks = {} THEN depth
        ELSE CHOOSE d \in breaks : \A e \in breaks : d <= e

\* The column of body_layer whose crest is at row crest and whose loop ends
\* at dy = stop.
BodyRows(w, crest, stop) ==
    [y \in Rows |->
        IF y >= crest /\ y < crest + stop
        THEN <<w.body[1], w.body[2], w.body[3], BodyAlpha(w.edge[4], y - crest, w.depth)>>
        ELSE Transparent]

BodyColumn(w, crest) == BodyRows(w, crest, BodyStop(w.edge[4], w.depth, crest))

\* draw_glass_wave, lines 51-65: body_layer, in column u.
body_layer(w, u) == BodyColumn(w, IntOf(y_func(w, u)))

EdgeColumn(w, crest) == [y \in Rows |-> IF y = crest THEN w.edge ELSE Transparent]

\* draw_glass_wave, lines 70-73: edge_layer, in column u.  The points of two
\* neighbouring columns are at most one row apart, so the one-pixel polyline
\* covers in column u the point (u, int(y_func(u))) and nothing else.
edge_layer(w, u) == EdgeColumn(w, IntOf(y_func(w, u)))

\* The share (in 255ths) that ImageFilter.GaussianBlur(radius) leaves of a
\* one-pixel horizontal line k rows away: 255 / (radius * sqrt(2 pi)) *
\* exp(-k^2 / (2 radius^2)), cut where it is below one 255th.
BloomWeight(radius, k) ==
    IF 2 * k > 5 * radius THEN 0
    ELSE TimesFloor(10173, 100 * radius, ExpNeg(k * k, 2 * radius * radius))

\* The colour c with each of its four channels scaled by wt / 255.
Faded(c, wt) ==
    <<(c[1] * wt) \div 255, (c[2] * wt) \div 255, (c[3] * wt) \div 255,
      (c[4] * wt) \div 255>>

Distance(a, b) == IF a >= b THEN a - b ELSE b - a

BloomColumn(w, crest) ==
    [y \in Rows |-> Faded(w.edge, BloomWeight(w.blur, Distance(y, crest)))]

\* draw_glass_wave, lines 76-77: bloom_layer, the blurred copy of edge_layer,
\* in column u.  The filter blurs each of the four channels on its own.
bloom_layer(w, u) == BloomColumn(w, IntOf(y_func(w, u)))

\* The sharp edge composited before the bloom.
LayerOrder_EdgeFirst == <<"body", "edge", "bloom">>

\* draw_glass_wave, lines 67, 78, 79: the order of the three composites.
LayerOrder == <<"body", "bloom", "edge">>

Layer(w, u, kind) ==
    CASE kind = "body" -> body_layer(w, u)
      [] kind = "bloom" -> bloom_layer(w, u)
      [] OTHER -> edge_layer(w, u)

RECURSIVE CompositeFrom(_, _, _, _)
CompositeFrom(image, w, u, k) ==
    IF k > Len(LayerOrder) THEN image
    ELSE CompositeFrom(alpha_composite(image, Layer(w, u, LayerOrder[k])), w, u, k + 1)

\* draw_glass_wave(img, y_func, edge_color, body_color, bloom_depth, bloom_blur)
\* in column u: the image returned.
draw_glass_wave(image, w, u) == CompositeFrom(image, w, u, 1)

\* content.putalpha(mask) left out.
putalpha_Skipped(image, m) == image

\* content.putalpha(mask): the alpha channel replaced by the mask.
putalpha(image, m) ==
    [y \in Rows |-> <<image[y][1], image[y][2], image[y][3], m[y]>>]

-----------------------------------------------------------------------------
VARIABLES
    \* main
    pc, px, wi, layer, content, mask, img, file, printed, saves, log,
    \* draw_glass_wave applied in both orders
    opc, oA, oB, start, cAB, cBA,
    \* draw_glass_wave, the body loop of one column
    bpc, bw, edge_alpha, bloom_depth, wy, dy, written,
    \* draw_glass_wave, the points of the edge line
    ppc, pw, x, val, point,
    \* rounded_rect, seen at one pixel of the mask
    mpc, mx, my, mval

mainVars == <<pc, px, wi, layer, content, mask, img, file, printed, saves, log>>
orderVars == <<opc, oA, oB, start, cAB, cBA>>
bodyVars == <<bpc, bw, edge_alpha, bloom_depth, wy, dy, written>>
pointVars == <<ppc, pw, x, val, point>>
maskVars == <<mpc, mx, my, mval>>
vars == <<mainVars, orderVars, bodyVars, pointVars, maskVars>>

\* The parts of the state a specification does not use.
MainIdle ==
    /\ pc = "idle" /\ px = 0 /\ wi = 0 /\ layer = "none"
    /\ content = <<>> /\ mask = <<>> /\ img = <<>> /\ file = "none"
    /\ printed = 0 /\ saves = 0 /\ log = <<>>
OrderIdle ==
    /\ opc = "idle" /\ oA = 0 /\ oB = 0 /\ start = "none"
    /\ cAB = <<>> /\ cBA = <<>>
BodyIdle ==
    /\ bpc = "idle" /\ bw = 0 /\ edge_alpha = 0 /\ bloom_depth = 0 /\ wy = 0
    /\ dy = 0 /\ written = <<>>
PointIdle == ppc = "idle" /\ pw = 0 /\ x = 0 /\ val = <<0, 0>> /\ point = <<0, 0>>
MaskIdle == mpc = "idle" /\ mx = 0 /\ my = 0 /\ mval = 0

-----------------------------------------------------------------------------
(* draw_glass_wave, line 72: points = [(x, int(y_func(x))) for x in        *)
(* range(SIZE)], for each of the five descriptors.                         *)

PointInit ==
    /\ ppc = "loop" /\ pw \in 1 .. NumWaves /\ x = 0
    /\ val = <<0, 0>> /\ point = <<0, 0>>
    /\ MainIdle /\ OrderIdle /\ BodyIdle /\ MaskIdle

PointStep ==
    /\ ppc = "loop" /\ x < SIZE
    /\ val' = y_func(waves[pw], x)
    /\ point' = <<x, IntOf(y_func(waves[pw], x))>>
    /\ x' = x + 1
    /\ UNCHANGED <<ppc, pw, mainVars, orderVars, bodyVars, maskVars>>

PointsEnd ==
    /\ ppc = "loop" /\ x = SIZE
    /\ ppc' = "done"
    /\ UNCHANGED <<pw, x, val, point, mainVars, orderVars, bodyVars, maskVars>>

PointNext == PointStep \/ PointsEnd

SpecPoints == PointInit /\ [][PointNext]_vars

\* v (integer part, fraction) lies in [lo, hi].
Within(v, lo, hi) == v[1] >= lo /\ (v[1] < hi \/ (v[1] = hi /\ v[2] = 0))

\* C8: at every column x of the canvas and for each of the five descriptors,
\* wave_y(x) lies in [base_y - amplitude, base_y + amplitude], and so does the
\* row int(wave_y(x)) that draw_glass_wave uses for the column.
C8_WaveYBounded ==
    (ppc \in {"loop", "done"} /\ x >= 1) =>
        LET w == waves[pw]
        IN  /\ Within(val, w.base_y - w.amplitude, w.base_y + w.amplitude)
            /\ point[2] >= w.base_y - w.amplitude
            /\ point[2] <= w.base_y + w.amplitude

\* A column where the row of the edge is the highest the bound allows.
C8_Witness ==
    /\ ppc = "loop" /\ x >= 1
    /\ point[2] = waves[pw].base_y - waves[pw].amplitude

-----------------------------------------------------------------------------
(* draw_glass_wave, lines 56-65: the body loop of one column, for the five *)
(* descriptors (bw in 1..5, at column 0) and for every edge alpha with a   *)
(* small bloom_depth (bw = 0), the column's crest wy at the canvas border. *)

MaxDepth == 8

BodyInit ==
    /\ bpc = "loop" /\ dy = 0 /\ written = <<>>
    /\ bw \in 0 .. NumWaves
    /\ IF bw = 0
       THEN /\ edge_alpha \in 0 .. 255
            /\ bloom_depth \in 1 .. MaxDepth
            /\ wy \in {0 - 2, SIZE - 3}
       ELSE /\ edge_alpha = waves[bw].edge[4]
            /\ bloom_depth = waves[bw].depth
            /\ wy = IntOf(y_func(waves[bw], 0))
    /\ MainIdle /\ OrderIdle /\ PointIdle /\ MaskIdle

\* if y < 0 or y >= SIZE: continue
BodySkip ==
    /\ bpc = "loop" /\ dy < bloom_depth
    /\ (wy + dy < 0 \/ wy + dy >= SIZE)
    /\ dy' = dy + 1
    /\ UNCHANGED <<bpc, bw, edge_alpha, bloom_depth, wy, written>>
    /\ UNCHANGED <<mainVars, orderVars, pointVars, maskVars>>

\* if alpha < 1: break
BodyBreak ==
    /\ bpc = "loop" /\ dy < bloom_depth
    /\ wy + dy >= 0 /\ wy + dy < SIZE
    /\ BodyAlpha(edge_alpha, dy, bloom_depth) < 1
    /\ bpc' = "broke"
    /\ UNCHANGED <<bw, edge_alpha, bloom_depth, wy, dy, written>>
    /\ UNCHANGED <<mainVars, orderVars, pointVars, maskVars>>

\* body_pixels[x, y] = (br, bg, bb, alpha)
BodyWrite ==
    /\ bpc = "loop" /\ dy < bloom_depth
    /\ wy + dy >= 0 /\ wy + dy < SIZE
    /\ BodyAlpha(edge_alpha, dy, bloom_depth) >= 1
    /\ written' = Append(written, BodyAlpha(edge_alpha, dy, bloom_depth))
    /\ dy' = dy + 1
    /\ UNCHANGED <<bpc, bw, edge_alpha, bloom_depth, wy>>
    /\ UNCHANGED <<mainVars, orderVars, pointVars, maskVars>>

\* range(bloom_depth) is exhausted
BodyEnd ==
    /\ bpc = "loop" /\ dy = bloom_depth
    /\ bpc' = "done"
    /\ UNCHANGED <<bw, edge_alpha, bloom_depth, wy, dy, written>>
    /\ UNCHANGED <<mainVars, orderVars, pointVars, maskVars>>

BodyNext == BodySkip \/ BodyBreak \/ BodyWrite \/ BodyEnd

SpecBody == BodyInit /\ [][BodyNext]_vars

\* C1, as claimed: for each of the five descriptors the alpha reaches the
\* floor (alpha < 1, the break) at some depth d <= bloom_depth.
C1_FloorReached ==
    (bw >= 1 /\ bpc \in {"done", "broke"}) =>
        (bpc = "broke" \/ BodyAlpha(edge_alpha, bloom_depth, bloom_depth) < 1)

\* C1, amended: for each of the five descriptors the alpha is at least 1 at
\* every depth 0 <= d <= bloom_depth: the break never fires and the column is
\* filled for all bloom_depth rows.
C1_FloorNotReached ==
    bw >= 1 =>
        /\ bpc # "broke"
        /\ BodyAlpha(edge_alpha, dy, bloom_depth) >= 1
        /\ (bpc = "done" => Len(written) = bloom_depth)

\* The loop of one of the five descriptors has run to its end.
C1_Witness == bw >= 1 /\ bpc = "done" /\ dy = bloom_depth

\* C5: for fixed edge alpha and bloom_depth the alpha written by the body loop
\* never increases with the depth d, 0 <= d < bloom_depth.
C5_AlphaMonotone ==
    /\ \A i \in 1 .. (Len(written) - 1) : written[i] >= written[i + 1]
    /\ (dy >= 1 /\ dy < bloom_depth) =>
           BodyAlpha(edge_alpha, dy, bloom_depth)
               <= BodyAlpha(edge_alpha, dy - 1, bloom_depth)
    /\ (bw = 0 /\ dy = 0) =>
           \A d1, d2 \in 0 .. (bloom_depth - 1) :
               d1 <= d2 => BodyAlpha(edge_alpha, d1, bloom_depth)
                              >= BodyAlpha(edge_alpha, d2, bloom_depth)

\* A column whose alpha fell strictly, down to the floor.
C5_Witness ==
    /\ bpc = "broke" /\ Len(written) >= 2
    /\ written[1] > written[Len(written)]

-----------------------------------------------------------------------------
(* rounded_rect: two rectangles and four pie slices drawn on the mask.     *)
(* ImageDraw.rectangle fills its box with both ends included; pieslice     *)
(* fills the quarter of the disc inscribed in its box that lies between    *)
(* the two angles (clockwise from three o'clock).                          *)

\* draw.rectangle(box, fill) seen at pixel (u, v) whose value is cur.
Rectangle(box, fill, cur, u, v) ==
    IF u >= box[1] /\ u <= box[3] /\ v >= box[2] /\ v <= box[4] THEN fill ELSE cur

\* draw.pieslice(box, from, from + 90, fill) seen at pixel (u, v).
Pieslice(box, from, fill, cur, u, v) ==
    LET cx == (box[1] + box[3]) \div 2
        cy == (box[2] + box[4]) \div 2
        r == (box[3] - box[1]) \div 2
        du == u - cx
        dv == v - cy
        quadrant == CASE from = 0 -> du >= 0 /\ dv >= 0
                      [] from = 90 -> du <= 0 /\ dv >= 0
                      [] from = 180 -> du <= 0 /\ dv <= 0
                      [] OTHER -> du >= 0 /\ dv <= 0
    IN  IF /\ u >= box[1] /\ u <= box[3] /\ v >= box[2] /\ v <= box[4]
           /\ quadrant
           /\ du * du + dv * dv <= r * r
        THEN fill ELSE cur

\* The first rectangle inset by the radius at the top and bottom as well.
rounded_rect_calls_Inset(xy, radius) ==
    LET x0 == xy[1]
        y0 == xy[2]
        x1 == xy[3]
        y1 == xy[4]
    IN  << [op |-> "rectangle", box |-> <<x0 + radius, y0 + radius, x1 - radius, y1 - radius>>, from |-> 0],
           [op |-> "rectangle", box |-> <<x0, y0 + radius, x1, y1 - radius>>, from |-> 0],
           [op |-> "pieslice", box |-> <<x0, y0, x0 + 2 * radius, y0 + 2 * radius>>, from |-> 180],
           [op |-> "pieslice", box |-> <<x1 - 2 * radius, y0, x1, y0 + 2 * radius>>, from |-> 270],
           [op |-> "pieslice", box |-> <<x0, y1 - 2 * radius, x0 + 2 * radius, y1>>, from |-> 90],
           [op |-> "pieslice", box |-> <<x1 - 2 * radius, y1 - 2 * radius, x1, y1>>, from |-> 0] >>

\* The six drawing calls of rounded_rect(draw, xy, radius, fill), in order.
rounded_rect_calls(xy, radius) ==
    LET x0 == xy[1]
        y0 == xy[2]
        x1 == xy[3]
        y1 == xy[4]
    IN  << [op |-> "rectangle", box |-> <<x0 + radius, y0, x1 - radius, y1>>, from |-> 0],
           [op |-> "rectangle", box |-> <<x0, y0 + radius, x1, y1 - radius>>, from |-> 0],
           [op |-> "pieslice", box |-> <<x0, y0, x0 + 2 * radius, y0 + 2 * radius>>, from |-> 180],
           [op |-> "pieslice", box |-> <<x1 - 2 * radius, y0, x1, y0 + 2 * radius>>, from |-> 270],
           [op |-> "pieslice", box |-> <<x0, y1 - 2 * radius, x0 + 2 * radius, y1>>, from |-> 90],
           [op |-> "pieslice", box |-> <<x1 - 2 * radius, y1 - 2 * radius, x1, y1>>, from |-> 0] >>

\* One call seen at pixel (u, v).
DrawCall(c, fill, cur, u, v) ==
    IF c.op = "rectangle"
    THEN Rectangle(c.box, fill, cur, u, v)
    ELSE Pieslice(c.box, c.from, fill, cur, u, v)

\* The value of pixel (u, v) after the calls k .. Len(calls).
RECURSIVE DrawFrom(_, _, _, _, _, _)
DrawFrom(calls, k, fill, cur, u, v) ==
    IF k > Len(calls) THEN cur
    ELSE DrawFrom(calls, k + 1, fill, DrawCall(calls[k], fill, cur, u, v), u, v)

\* rounded_rect(draw, xy, radius, fill) seen at pixel (u, v) whose value is cur.
rounded_rect(xy, radius, fill, cur, u, v) ==
    DrawFrom(rounded_rect_calls(xy, radius), 1, fill, cur, u, v)

\* main: mask = Image.new("L", (SIZE, SIZE), 0) and the arguments of rounded_rect.
mask_new == 0
mask_xy == <<MARGIN, MARGIN, SIZE - MARGIN, SIZE - MARGIN>>
\* The mask filled with 0, the value it is created with.
mask_fill_Zero == mask_new
mask_fill == 255
MaskCalls == rounded_rect_calls(mask_xy, CORNER)

\* The rows of the mask that are followed pixel by pixel: the band above and
\* on the top edge, the middle row and the last row.
MaskRows == (0 .. MARGIN) \cup {SIZE \div 2, SIZE - 1}

MaskInit ==
    /\ mpc = 1 /\ mx \in 0 .. (SIZE - 1) /\ my \in MaskRows /\ mval = mask_new
    /\ MainIdle /\ OrderIdle /\ BodyIdle /\ PointIdle

MaskRectangle ==
    /\ mpc \in 1 .. Len(MaskCalls) /\ MaskCalls[mpc].op = "rectangle"
    /\ mval' = Rectangle(MaskCalls[mpc].box, mask_fill, mval, mx, my)
    /\ mpc' = mpc + 1
    /\ UNCHANGED <<mx, my, mainVars, orderVars, bodyVars, pointVars>>

MaskPieslice ==
    /\ mpc \in 1 .. Len(MaskCalls) /\ MaskCalls[mpc].op = "pieslice"
    /\ mval' = Pieslice(MaskCalls[mpc].box, MaskCalls[mpc].from, mask_fill, mval, mx, my)
    /\ mpc' = mpc + 1
    /\ UNCHANGED <<mx, my, mainVars, orderVars, bodyVars, pointVars>>

MaskNext == MaskRectangle \/ MaskPieslice

SpecMask == MaskInit /\ [][MaskNext]_vars

MaskDone == mpc = Len(MaskCalls) + 1

\* C6: the finished mask is 255 at the canvas centre and 0 at the four corner
\* pixels (0,0), (1023,0), (0,1023), (1023,1023).
C6_CentreOpaqueCornersClear ==
    MaskDone =>
        /\ (mx = SIZE \div 2 /\ my = SIZE \div 2) => mval = 255
        /\ (mx \in {0, SIZE - 1} /\ my \in {0, SIZE - 1}) => mval = 0

\* The finished mask seen at the centre pixel.
C6_Witness == MaskDone /\ mx = SIZE \div 2 /\ my = SIZE \div 2 /\ mval = 255

\* C7: for x in MARGIN+CORNER .. SIZE-MARGIN-CORNER the top boundary of the
\* opaque region is at y = MARGIN: (x, MARGIN) is opaque and every (x, y) with
\* y < MARGIN is transparent.
C7_TopEdgeAtMargin ==
    (MaskDone /\ mx >= MARGIN + CORNER /\ mx <= SIZE - MARGIN - CORNER) =>
        /\ my = MARGIN => mval = 255
        /\ my < MARGIN => mval = 0

\* The finished mask seen on the top edge, strictly between the arcs.
C7_Witness ==
    /\ MaskDone /\ mx > MARGIN + CORNER /\ mx < SIZE - MARGIN - CORNER
    /\ my = MARGIN /\ mval = 255

-----------------------------------------------------------------------------
(* The program: the module's os.makedirs, then main, followed in column px. *)

\* print placed before img.save.
ProgramOrder_PrintFirst ==
    <<"makedirs", "new_img", "mask", "background", "waves", "putalpha",
      "composite", "print", "save", "done">>

\* The statements of the program in the order they are written.
ProgramOrder ==
    <<"makedirs", "new_img", "mask", "background", "waves", "putalpha",
      "composite", "save", "print", "done">>

Pos(p) == CHOOSE i \in 1 .. Len(ProgramOrder) : ProgramOrder[i] = p
After(p) == ProgramOrder[Pos(p) + 1]

\* The columns the program is followed in.
ColStride == 128
Cols == {c \in 0 .. (SIZE - 1) : c % ColStride = 0} \cup {SIZE \div 2, SIZE - 1}

Init ==
    /\ pc = ProgramOrder[1]
    /\ px \in Cols
    /\ file \in {"nodir", "nofile", "stale"}
    /\ wi = 0 /\ layer = "none"
    /\ content = <<>> /\ mask = <<>> /\ img = <<>>
    /\ printed = 0 /\ saves = 0 /\ log = <<>>
    /\ OrderIdle /\ BodyIdle /\ PointIdle /\ MaskIdle

rest == <<orderVars, bodyVars, pointVars, maskVars>>

\* os.makedirs(OUT_DIR, exist_ok=True)
MakeDirs ==
    /\ pc = "makedirs"
    /\ file' = IF file = "nodir" THEN "nofile" ELSE file
    /\ pc' = After("makedirs")
    /\ UNCHANGED <<px, wi, layer, content, mask, img, printed, saves, log, rest>>

\* img = Image.new("RGBA", (SIZE, SIZE), (0, 0, 0, 0))
NewImg ==
    /\ pc = "new_img"
    /\ img' = NewImage
    /\ pc' = After("new_img")
    /\ UNCHANGED <<px, wi, layer, content, mask, file, printed, saves, log, rest>>

\* mask = Image.new("L", ...); rounded_rect(ImageDraw.Draw(mask), ...)
BuildMask ==
    /\ pc = "mask"
    /\ mask' = [y \in Rows |-> rounded_rect(mask_xy, CORNER, mask_fill, mask_new, px, y)]
    /\ pc' = After("mask")
    /\ UNCHANGED <<px, wi, layer, content, img, file, printed, saves, log, rest>>

\* content = Image.new(...); content.putpixel((x, y), (r, g, b, 255)) for all x, y
PaintBackground ==
    /\ pc = "background"
    /\ content' = Background
    /\ wi' = 1 /\ layer' = LayerOrder[1]
    /\ pc' = After("background")
    /\ UNCHANGED <<px, mask, img, file, printed, saves, log, rest>>

\* The layer composited next: the following layer of the wave, or the first
\* layer of the following wave, or the statement after the loop.
Advance ==
    LET k == CHOOSE i \in 1 .. Len(LayerOrder) : LayerOrder[i] = layer
    IN  IF k < Len(LayerOrder)
        THEN /\ layer' = LayerOrder[k + 1] /\ UNCHANGED <<wi, pc>>
        ELSE IF wi < NumWaves
        THEN /\ layer' = LayerOrder[1] /\ wi' = wi + 1 /\ UNCHANGED pc
        ELSE /\ layer' = "none" /\ wi' = wi /\ pc' = After("waves")

\* img = Image.alpha_composite(img, body_layer)
CompositeBody ==
    /\ pc = "waves" /\ layer = "body"
    /\ content' = alpha_composite(content, body_layer(waves[wi], px))
    /\ log' = Append(log, <<wi, "body">>)
    /\ Advance
    /\ UNCHANGED <<px, mask, img, file, printed, saves, rest>>

\* img = Image.alpha_composite(img, bloom_layer)
CompositeBloom ==
    /\ pc = "waves" /\ layer = "bloom"
    /\ content' = alpha_composite(content, bloom_layer(waves[wi], px))
    /\ log' = Append(log, <<wi, "bloom">>)
    /\ Advance
    /\ UNCHANGED <<px, mask, img, file, printed, saves, rest>>

\* img = Image.alpha_composite(img, edge_layer)
CompositeEdge ==
    /\ pc = "waves" /\ layer = "edge"
    /\ content' = alpha_composite(content, edge_layer(waves[wi], px))
    /\ log' = Append(log, <<wi, "edge">>)
    /\ Advance
    /\ UNCHANGED <<px, mask, img, file, printed, saves, rest>>

\* content.putalpha(mask)
PutAlpha ==
    /\ pc = "putalpha"
    /\ content' = putalpha(content, mask)
    /\ log' = Append(log, <<0, "mask">>)
    /\ pc' = After("putalpha")
    /\ UNCHANGED <<px, wi, layer, mask, img, file, printed, saves, rest>>

\* img = Image.alpha_composite(img, content)
CompositeFinal ==
    /\ pc = "composite"
    /\ img' = alpha_composite(img, content)
    /\ pc' = After("composite")
    /\ UNCHANGED <<px, wi, layer, content, mask, file, printed, saves, log, rest>>

\* img.save(out_path) returns
SaveOk ==
    /\ pc = "save"
    /\ file' = img
    /\ saves' = saves + 1
    /\ pc' = After("save")
    /\ UNCHANGED <<px, wi, layer, content, mask, img, printed, log, rest>>

\* img.save(out_path) raises: nothing catches it, the process ends.  The file
\* is as it was or holds what was written before the error.
SaveFails ==
    /\ pc = "save"
    /\ file' \in {file, "partial"}
    /\ saves' = saves + 1
    /\ pc' = "aborted"
    /\ UNCHANGED <<px, wi, layer, content, mask, img, printed, log, rest>>

\* print(f"Saved {out_path}")
PrintSaved ==
    /\ pc = "print"
    /\ printed' = printed + 1
    /\ pc' = After("print")
    /\ UNCHANGED <<px, wi, layer, content, mask, img, file, saves, log, rest>>

Next ==
    \/ MakeDirs \/ NewImg \/ BuildMask \/ PaintBackground
    \/ CompositeBody \/ CompositeBloom \/ CompositeEdge
    \/ PutAlpha \/ CompositeFinal \/ SaveOk \/ SaveFails \/ PrintSaved

Spec == Init /\ [][Next]_vars

\* The final composite has been made.
Composited ==
    \/ pc = "aborted"
    \/ /\ pc \in {ProgramOrder[i] : i \in 1 .. Len(ProgramOrder)}
       /\ Pos(pc) > Pos("composite")

\* C3: after the clipping step the alpha of the final image is the mask at
\* every pixel, 255 where the mask is 255 and 0 where it is 0, whatever was
\* drawn; in the middle column the image has pixels of both kinds, so it is
\* neither opaque everywhere nor transparent everywhere.
C3_AlphaIsMask ==
    Composited =>
        /\ \A y \in Rows : img[y][4] = mask[y] /\ mask[y] \in {0, 255}
        /\ px = SIZE \div 2 =>
              /\ \E y \in Rows : img[y][4] = 255
              /\ \E y \in Rows : img[y][4] = 0

\* The saved image in the middle column: clear at the top, opaque in the
\* middle, where the waves have changed the background.
C3_Witness ==
    /\ pc = "done" /\ px = SIZE \div 2 /\ file = img
    /\ img[0][4] = 0 /\ img[SIZE \div 2][4] = 255
    /\ img[SIZE \div 2] # Background[SIZE \div 2]

\* C9: "Saved" is printed at most once and only after img.save has returned;
\* if img.save raises, the process ends with nothing printed, the save not
\* tried again and no further step taken.
C9_SavedLine ==
    /\ printed <= 1 /\ saves <= 1
    /\ printed = 1 => (saves = 1 /\ file = img /\ pc = "done")
    /\ pc = "done" => printed = 1
    /\ pc = "aborted" => (printed = 0 /\ saves = 1 /\ ~ ENABLED Next)

\* img.save has raised.
C9_Witness == pc = "aborted" /\ printed = 0 /\ saves = 1

\* The composites of a run in the order the claim gives: body, bloom, edge of
\* wave 1, ..., of wave 5, then the mask.
ExpectedLog ==
    [i \in 1 .. (3 * NumWaves + 1) |->
        IF i = 3 * NumWaves + 1 THEN <<0, "mask">>
        ELSE <<((i - 1) \div 3) + 1, <<"body", "bloom", "edge">>[((i - 1) % 3) + 1]>>]

\* C10: the layers are composited in one fixed order: for each wave in the
\* declared order its body, then its bloom, then its edge, all three before
\* any layer of the next wave, and the mask only after the edge of wave 5.
C10_CompositeOrder ==
    /\ Len(log) <= Len(ExpectedLog)
    /\ \A i \in 1 .. Len(log) : log[i] = ExpectedLog[i]
    /\ Composited => Len(log) = Len(ExpectedLog)

\* The mask has just been applied, after the fifteen layers.
C10_Witness == pc = "composite" /\ Len(log) = 3 * NumWaves + 1

-----------------------------------------------------------------------------
(* draw_glass_wave applied for two descriptors A, B in both orders to the  *)
(* same canvas.  The descriptors are the five of main and two more with    *)
(* the shape of the first two and black colours; the canvas is main's      *)
(* background or an opaque black one.                                      *)

Ink(w) == [w EXCEPT !.edge = <<0, 0, 0, w.edge[4]>>, !.body = <<0, 0, 0>>]

Descriptors == waves \o <<Ink(waves[1]), Ink(waves[2])>>

\* The canvas the two orders start from, in the columns Cols.
Canvas(name) ==
    [u \in Cols |->
        IF name = "gradient" THEN Background ELSE [y \in Rows |-> <<0, 0, 0, 255>>]]

\* draw_glass_wave in every column of the canvas.
Drawn(canvas, w) == [u \in Cols |-> draw_glass_wave(canvas[u], w, u)]

OrderInit ==
    /\ opc = "start"
    /\ oA \in 1 .. Len(Descriptors) /\ oB \in 1 .. Len(Descriptors) /\ oA < oB
    /\ start \in {"gradient", "black"}
    /\ cAB = Canvas(start) /\ cBA = Canvas(start)
    /\ MainIdle /\ BodyIdle /\ PointIdle /\ MaskIdle

\* The first wave of each order: A on one canvas, B on the other.
DrawFirst ==
    /\ opc = "start"
    /\ cAB' = Drawn(cAB, Descriptors[oA])
    /\ cBA' = Drawn(cBA, Descriptors[oB])
    /\ opc' = "first"
    /\ UNCHANGED <<oA, oB, start, mainVars, bodyVars, pointVars, maskVars>>

\* The second wave of each order.
DrawSecond ==
    /\ opc = "first"
    /\ cAB' = Drawn(cAB, Descriptors[oB])
    /\ cBA' = Drawn(cBA, Descriptors[oA])
    /\ opc' = "done"
    /\ UNCHANGED <<oA, oB, start, mainVars, bodyVars, pointVars, maskVars>>

OrderNext == DrawFirst \/ DrawSecond

SpecOrder == OrderInit /\ [][OrderNext]_vars

\* The rows of column u where one of the three layers of w is not transparent.
BandOf(body, bloom, edge) ==
    {y \in Rows : body[y][4] > 0 \/ bloom[y][4] > 0 \/ edge[y][4] > 0}
Band(w, u) == BandOf(body_layer(w, u), bloom_layer(w, u), edge_layer(w, u))

\* The pixels of column u that get a contribution from both descriptors.
Shared(u) == Band(Descriptors[oA], u) \cap Band(Descriptors[oB], u)
Overlap == \E u \in Cols : Shared(u) # {}

DifferInOverlap ==
    /\ \E u \in Cols : \E y \in Shared(u) : cAB[u][y] # cBA[u][y]
    /\ \A u \in Cols : \A y \in Rows \ Shared(u) : cAB[u][y] = cBA[u][y]

=============================================================================
